---- MODULE Spec2Model ----
(***************************************************************************)
(* A model of okcli's SQLCompleter (src/okcli/sqlcompleter.py): the        *)
(* metadata catalog and its extension operations, the scope resolver and   *)
(* the match ranker.                                                       *)
(*                                                                         *)
(* A Python str is a sequence of one-character strings, so that upper(),   *)
(* lower(), find() and iterating a str (set.update(str)) are computed.     *)
(* A Python dict is a function, a key being present when it is in the      *)
(* function's DOMAIN; a Python set is a set; a list or a tuple a sequence. *)
(***************************************************************************)
EXTENDS Integers, Sequences, FiniteSets, TLC

\* ------------------------------------------------------------------ bounds
\* The number of calls made on the completer in one behaviour.
MaxOps == 4

\* ------------------------------------------------------------------ str
LowerLetters == <<"a","b","c","d","e","f","g","h","i","j","k","l","m",
                  "n","o","p","q","r","s","t","u","v","w","x","y","z">>
UpperLetters == <<"A","B","C","D","E","F","G","H","I","J","K","L","M",
                  "N","O","P","Q","R","S","T","U","V","W","X","Y","Z">>

Range(s) == {s[i] : i \in DOMAIN s}

IndexIn(c, s) == CHOOSE i \in DOMAIN s : s[i] = c

UpperSet == Range(UpperLetters)
LowerSet == Range(LowerLetters)

\* the uppercase letter of each lowercase one, and the other way
UpperOf == [c \in LowerSet |-> UpperLetters[IndexIn(c, LowerLetters)]]
LowerOf == [c \in UpperSet |-> LowerLetters[IndexIn(c, UpperLetters)]]

\* str.upper() of one character
upper_char(c) == IF c \in LowerSet THEN UpperOf[c] ELSE c

\* str.lower() of one character
lower_char(c) == IF c \in UpperSet THEN LowerOf[c] ELSE c

\* str.upper()
upper(s) == [i \in 1..Len(s) |-> upper_char(s[i])]

\* str.lower()
lower(s) == [i \in 1..Len(s) |-> lower_char(s[i])]

\* the ASCII characters of code points 32 to 95, then those of 97 to 126
AsciiFrom32 == <<" ","!","\"","#","$","%","&","'","(",")","*","+",",","-",".","/",
                 "0","1","2","3","4","5","6","7","8","9",":",";","<","=",">","?",
                 "@","A","B","C","D","E","F","G","H","I","J","K","L","M","N","O",
                 "P","Q","R","S","T","U","V","W","X","Y","Z","[","\\","]","^","_">>
AsciiFrom97 == <<"a","b","c","d","e","f","g","h","i","j","k","l","m","n","o",
                 "p","q","r","s","t","u","v","w","x","y","z","{","|","}","~">>

\* the code point of each of these characters, of the tab and of the line
\* break
CodePoints ==
  [c \in Range(AsciiFrom32) \cup Range(AsciiFrom97) \cup {"\t", "\n"} |->
     IF c = "\n" THEN 10
     ELSE IF c = "\t" THEN 9
     ELSE IF c \in Range(AsciiFrom32) THEN 31 + IndexIn(c, AsciiFrom32)
     ELSE 96 + IndexIn(c, AsciiFrom97)]

\* ord() of one character (ASCII)
ord(c) == CodePoints[c]

SetMin(S) == CHOOSE x \in S : \A y \in S : x <= y

\* a < b for two str
str_lt(a, b) ==
  LET n == IF Len(a) < Len(b) THEN Len(a) ELSE Len(b)
  IN IF \A i \in 1..n : a[i] = b[i] THEN Len(a) < Len(b)
     ELSE LET d == CHOOSE i \in 1..n : a[i] # b[i] /\ \A j \in 1..(i - 1) : a[j] = b[j]
          IN ord(a[d]) < ord(b[d])

\* the Python value None, and the test `not x` for a str or None
None == <<"None">>
falsy(x) == x = None \/ x = <<>>

\* ------------------------------------------------------------------ dict
EmptyDict == <<>>
DictSet(d, k, v) == [x \in (DOMAIN d) \cup {k} |-> IF x = k THEN v ELSE d[x]]

\* ------------------------------------------------------------------ names
\* The identifiers the calls are made with.
s_hr == <<"h","r">>
s_HR == <<"H","R">>
s_S == <<"S">>
n_emp == <<"e","m","p">>
n_T == <<"T">>
n_a == <<"a">>
n_b == <<"b">>
n_f == <<"f">>
n_SUM == <<"S","U","M">>
n_db == <<"d","b">>
n_bob == <<"b","o","b">>
n_kw == <<"k","w">>
n_it == <<"i","t">>

\* the wildcard column
Star == <<"*">>

SchemaNames == {s_hr, s_HR, s_S}
RelKinds == {"tables", "views"}

\* A lazy sequence handed to an extension call: it yields `items` and then
\* either ends (Yields) or raises (Raises).
Yields(items) == [items |-> items, raises |-> FALSE]
Raises(items) == [items |-> items, raises |-> TRUE]

RelationData ==
  { Yields(<< <<n_emp>> >>),
    Yields(<< <<n_emp>>, <<n_T>> >>),
    Raises(<< <<n_emp>>, <<n_T>> >>) }

ColumnData ==
  { Yields(<< <<n_emp, n_a>>, <<n_emp, n_b>> >>),
    Yields(<< <<n_emp, n_a>>, <<n_T, n_b>> >>),
    Raises(<< <<n_emp, n_a>> >>) }

FunctionData ==
  { Yields(<< <<n_f>>, <<n_SUM>> >>),
    Raises(<< <<n_f>> >>) }

\* ------------------------------------------------------------------ vocabularies
\* okcli.lexer.ORACLE_KEYWORDS (a part of it)
ORACLE_KEYWORDS == << <<"S","E","L","E","C","T">>, <<"S","E","T">>, <<"F","R","O","M">> >>

\* the built-in function lists
str_functions ==
  << <<"A","S","C","I","I">>,
     <<"A","S","C","I","I","S","T","R">>,
     <<"C","H","R">>,
     <<"C","O","M","P","O","S","E">>,
     <<"C","O","N","C","A","T">>,
     <<"C","O","N","V","E","R","T">>,
     <<"D","E","C","O","M","P","O","S","E">>,
     <<"D","U","M","P">>,
     <<"I","N","I","T","C","A","P">>,
     <<"I","N","S","T","R">>,
     <<"I","N","S","T","R","2">>,
     <<"I","N","S","T","R","4">>,
     <<"I","N","S","T","R","B">>,
     <<"I","N","S","T","R","C">>,
     <<"L","E","N","G","T","H">>,
     <<"L","E","N","G","T","H","2">>,
     <<"L","E","N","G","T","H","4">>,
     <<"L","E","N","G","T","H","B">>,
     <<"L","E","N","G","T","H","C">>,
     <<"L","O","W","E","R">>,
     <<"L","P","A","D">>,
     <<"L","T","R","I","M">>,
     <<"N","C","H","R">>,
     <<"R","E","G","E","X","P","_","I","N","S","T","R">>,
     <<"R","E","G","E","X","P","_","R","E","P","L","A","C","E">>,
     <<"R","E","G","E","X","P","_","S","U","B","S","T","R">>,
     <<"R","E","P","L","A","C","E">>,
     <<"R","P","A","D">>,
     <<"R","T","R","I","M">>,
     <<"S","O","U","N","D","E","X">>,
     <<"S","U","B","S","T","R">>,
     <<"T","R","A","N","S","L","A","T","E">>,
     <<"T","R","I","M">>,
     <<"U","P","P","E","R">>,
     <<"V","S","I","Z","E">> >>

num_functions ==
  << <<"A","B","S">>,
     <<"A","C","O","S">>,
     <<"A","S","I","N">>,
     <<"A","T","A","N">>,
     <<"A","T","A","N","2">>,
     <<"A","V","G">>,
     <<"B","I","T","A","N","D">>,
     <<"C","E","I","L">>,
     <<"C","O","S">>,
     <<"C","O","S","H">>,
     <<"C","O","U","N","T">>,
     <<"E","X","P">>,
     <<"F","L","O","O","R">>,
     <<"G","R","E","A","T","E","S","T">>,
     <<"L","E","A","S","T">>,
     <<"L","N">>,
     <<"L","O","G">>,
     <<"M","A","X">>,
     <<"M","E","D","I","A","N">>,
     <<"M","I","N">>,
     <<"M","O","D">>,
     <<"P","O","W","E","R">>,
     <<"R","E","G","E","X","P","_","C","O","U","N","T">>,
     <<"R","E","M","A","I","N","D","E","R">>,
     <<"R","O","U","N","D">>,
     <<"R","O","W","N","U","M">>,
     <<"S","I","G","N">>,
     <<"S","I","N">>,
     <<"S","I","N","H">>,
     <<"S","Q","R","T">>,
     <<"S","U","M">>,
     <<"T","A","N">>,
     <<"T","A","N","H">>,
     <<"T","R","U","N","C">> >>

date_functions ==
  << <<"A","D","D","_","M","O","N","T","H","S">>,
     <<"C","U","R","R","E","N","T","_","D","A","T","E">>,
     <<"C","U","R","R","E","N","T","_","T","I","M","E","S","T","A","M","P">>,
     <<"D","B","T","I","M","E","Z","O","N","E">>,
     <<"E","X","T","R","A","C","T">>,
     <<"L","A","S","T","_","D","A","Y">>,
     <<"L","O","C","A","L","T","I","M","E","S","T","A","M","P">>,
     <<"M","O","N","T","H","S","_","B","E","T","W","E","E","N">>,
     <<"N","E","W","_","T","I","M","E">>,
     <<"N","E","X","T","_","D","A","Y">>,
     <<"R","O","U","N","D">>,
     <<"S","E","S","S","I","O","N","T","I","M","E","Z","O","N","E">>,
     <<"S","Y","S","D","A","T","E">>,
     <<"S","Y","S","T","I","M","E","S","T","A","M","P">>,
     <<"T","R","U","N","C">>,
     <<"T","Z","_","O","F","F","S","E","T">> >>

conv_functions ==
  << <<"B","I","N","_","T","O","_","N","U","M">>,
     <<"C","A","S","T">>,
     <<"C","H","A","R","T","O","R","O","W","I","D">>,
     <<"F","R","O","M","_","T","Z">>,
     <<"H","E","X","T","O","R","A","W">>,
     <<"N","U","M","T","O","D","S","I","N","T","E","R","V","A","L">>,
     <<"N","U","M","T","O","Y","M","I","N","T","E","R","V","A","L">>,
     <<"R","A","W","T","O","H","E","X">>,
     <<"T","O","_","C","H","A","R">>,
     <<"T","O","_","C","L","O","B">>,
     <<"T","O","_","D","A","T","E">>,
     <<"T","O","_","D","S","I","N","T","E","R","V","A","L">>,
     <<"T","O","_","L","O","B">>,
     <<"T","O","_","M","U","L","T","I","_","B","Y","T","E">>,
     <<"T","O","_","N","C","L","O","B">>,
     <<"T","O","_","N","U","M","B","E","R">>,
     <<"T","O","_","S","I","N","G","L","E","_","B","Y","T","E">>,
     <<"T","O","_","T","I","M","E","S","T","A","M","P">>,
     <<"T","O","_","T","I","M","E","S","T","A","M","P","_","T","Z">>,
     <<"T","O","_","Y","M","I","N","T","E","R","V","A","L">> >>

analytic_functions ==
  << <<"C","O","R","R">>,
     <<"C","O","V","A","R","_","P","O","P">>,
     <<"C","O","V","A","R","_","S","A","M","P">>,
     <<"C","U","M","E","_","D","I","S","T">>,
     <<"D","E","N","S","E","_","R","A","N","K">>,
     <<"F","I","R","S","T","_","V","A","L","U","E">>,
     <<"L","A","G">>,
     <<"L","A","S","T","_","V","A","L","U","E">>,
     <<"L","E","A","D">>,
     <<"L","I","S","T","A","G","G">>,
     <<"N","T","H","_","V","A","L","U","E">>,
     <<"R","A","N","K">>,
     <<"S","T","D","D","E","V">>,
     <<"V","A","R","_","P","O","P">>,
     <<"V","A","R","_","S","A","M","P">>,
     <<"V","A","R","I","A","N","C","E">> >>

advanced_fuctions ==
  << <<"B","F","I","L","E","N","A","M","E">>,
     <<"C","A","R","D","I","N","A","L","I","T","Y">>,
     <<"C","A","S","E">>,
     <<"C","O","A","L","E","S","C","E">>,
     <<"D","E","C","O","D","E">>,
     <<"E","M","P","T","Y","_","B","L","O","B">>,
     <<"E","M","P","T","Y","_","C","L","O","B">>,
     <<"G","R","O","U","P","_","I","D">>,
     <<"L","N","N","V","L">>,
     <<"N","A","N","V","L">>,
     <<"N","U","L","L","I","F">>,
     <<"N","V","L">>,
     <<"N","V","L","2">>,
     <<"S","Y","S","_","C","O","N","T","E","X","T">>,
     <<"U","I","D">>,
     <<"U","S","E","R">>,
     <<"U","S","E","R","E","N","V">> >>

\* sorted() of a set of str: the elements below one of them, sorted, that
\* element, and the elements above it, sorted
RECURSIVE sorted_set(_)
sorted_set(S) ==
  IF S = {} THEN <<>>
  ELSE LET pivot == CHOOSE x \in S : TRUE
       IN sorted_set({x \in S : str_lt(x, pivot)}) \o <<pivot>>
          \o sorted_set({x \in S : str_lt(pivot, x)})

\* SQLCompleter.functions
functions ==
  sorted_set(Range(str_functions \o num_functions \o date_functions
                   \o conv_functions \o analytic_functions \o advanced_fuctions))

\* ------------------------------------------------------------------ state
VARIABLES
  keywords,          \* SQLCompleter.keywords (the class's list, shared)
  change_items,      \* SQLCompleter.change_items (the class's list, shared)
  special_commands,  \* self.special_commands
  databases,         \* self.databases
  users,             \* self.users
  show_items,        \* self.show_items
  dbname,            \* self.dbname
  dbmetadata,        \* self.dbmetadata
  all_completions,   \* self.all_completions
  call,              \* the last call made: its name and arguments
  outcome,           \* how it ended: "ok", or the exception it raised
  returned,          \* what it returned
  nops               \* the number of calls made

vars == <<keywords, change_items, special_commands, databases, users,
          show_items, dbname, dbmetadata, all_completions, call, outcome, returned,
          nops>>

Call(op, data, kind, schema) == [op |-> op, data |-> data, kind |-> kind, schema |-> schema]

\* ------------------------------------------------------------------ helpers
escape_name(name) == name

escaped_names(names) == [i \in DOMAIN names |-> escape_name(names[i])]

\* Mutant of escaped_rows: the rows yielded before the enumeration raised
\* are kept.
escaped_rows_partial(data) ==
  [i \in DOMAIN data.items |-> escaped_names(data.items[i])]

\* [self.escaped_names(d) for d in data] under try/except Exception: the
\* list when the enumeration ends, [] when it raises.
escaped_rows(data) ==
  IF data.raises THEN <<>>
  ELSE [i \in DOMAIN data.items |-> escaped_names(data.items[i])]

\* ------------------------------------------------------------------ reset
EmptyMetadata == [tables |-> EmptyDict, views |-> EmptyDict, functions |-> EmptyDict]

\* Mutant of initial_completions: the built-in functions are left out.
initial_completions_keywords_only(kw) == Range(kw)

\* set(self.keywords + self.functions)
initial_completions(kw) == Range(kw \o functions)

reset_completions ==
  /\ nops < MaxOps
  /\ databases' = <<>>
  /\ users' = <<>>
  /\ show_items' = <<>>
  /\ dbname' = <<>>
  /\ dbmetadata' = EmptyMetadata
  /\ all_completions' = initial_completions(keywords)
  /\ UNCHANGED <<keywords, change_items, special_commands>>
  /\ call' = Call("reset_completions", None, None, None)
  /\ outcome' = "ok"
  /\ returned' = None
  /\ nops' = nops + 1

\* SQLCompleter.__init__
Init ==
  /\ keywords = ORACLE_KEYWORDS
  /\ change_items = <<>>
  /\ special_commands = <<>>
  /\ databases = <<>>
  /\ users = <<>>
  /\ show_items = <<>>
  /\ dbname = <<>>
  /\ dbmetadata = EmptyMetadata
  /\ all_completions = initial_completions(ORACLE_KEYWORDS)
  /\ call = Call("__init__", None, None, None)
  /\ outcome = "ok"
  /\ returned = None
  /\ nops = 0

\* ------------------------------------------------------------------ catalog
\* The part of the completer an extension call writes: the object maps, the
\* global completion set, and the exception the call has raised so far.
Cat(md, ac, exc) == [dbmetadata |-> md, all_completions |-> ac, exc |-> exc]

\* metadata[schema][name] = value, for metadata = dbmetadata[kind]
SetObject(md, kind, schema, name, value) ==
  [md EXCEPT ![kind] = DictSet(md[kind], schema, DictSet(md[kind][schema], name, value))]

\* Mutant of schema_entries: the views map gets no entry for the schema.
schema_entries_skip_views(md, schema) ==
  [kind \in DOMAIN md |->
     IF kind = "views" THEN md[kind] ELSE DictSet(md[kind], schema, EmptyDict)]

\* Mutant of schema_entries: a schema that has an entry keeps it.
schema_entries_keep_existing(md, schema) ==
  [kind \in DOMAIN md |->
     IF schema \in DOMAIN md[kind] THEN md[kind]
     ELSE DictSet(md[kind], schema, EmptyDict)]

\* for metadata in self.dbmetadata.values(): metadata[schema] = {}
schema_entries(md, schema) ==
  [kind \in DOMAIN md |-> DictSet(md[kind], schema, EmptyDict)]

\* self.all_completions.update(schema): a str is iterated by character
update_str(ac, text) == ac \cup {<<text[i]>> : i \in DOMAIN text}

\* Mutant of _extend_schemata: the schema is keyed as passed, not uppercased.
_extend_schemata_as_passed(cat, schema) ==
  Cat(schema_entries(cat.dbmetadata, schema),
      update_str(cat.all_completions, schema), cat.exc)

_extend_schemata(cat, schema) ==
  LET schema_u == upper(schema)
  IN Cat(schema_entries(cat.dbmetadata, schema_u),
         update_str(cat.all_completions, schema_u), cat.exc)

RECURSIVE schemata_loop(_, _, _)
schemata_loop(cat, schemas, i) ==
  IF i > Len(schemas) THEN cat
  ELSE schemata_loop(_extend_schemata(cat, schemas[i]), schemas, i + 1)

\* Mutant of relation_step: a relation of an unknown schema is skipped
\* before its name is added to the global completion set.
relation_step_skip_name(cat, kind, schema, relname) ==
  LET name == relname[1]
      metadata == cat.dbmetadata[kind]
  IN IF schema \in DOMAIN metadata
     THEN Cat(SetObject(cat.dbmetadata, kind, schema, name, <<Star>>),
              cat.all_completions \cup {name}, cat.exc)
     ELSE cat

\* Mutant of relation_step: a relation that is already registered keeps its
\* column list.
relation_step_keep_existing(cat, kind, schema, relname) ==
  LET name == relname[1]
      metadata == cat.dbmetadata[kind]
      md == IF schema \in DOMAIN metadata /\ name \notin DOMAIN metadata[schema]
            THEN SetObject(cat.dbmetadata, kind, schema, name, <<Star>>)
            ELSE cat.dbmetadata
  IN Cat(md, cat.all_completions \cup {name}, cat.exc)

\* the body of the loop of extend_relations
relation_step(cat, kind, schema, relname) ==
  LET name == relname[1]
      metadata == cat.dbmetadata[kind]
      md == IF schema \in DOMAIN metadata
            THEN SetObject(cat.dbmetadata, kind, schema, name, <<Star>>)
            ELSE cat.dbmetadata    \* KeyError, logged
  IN Cat(md, cat.all_completions \cup {name}, cat.exc)

RECURSIVE relations_loop(_, _, _, _, _)
relations_loop(cat, data, kind, schema, i) ==
  IF i > Len(data) THEN cat
  ELSE relations_loop(relation_step(cat, kind, schema, data[i]), data, kind, schema, i + 1)

\* Mutant of column_step: the column is inserted at the head of the list.
column_step_prepend(cat, kind, schema, relname, column) ==
  LET metadata == cat.dbmetadata[kind]
  IN IF schema \in DOMAIN metadata /\ relname \in DOMAIN metadata[schema]
     THEN Cat(SetObject(cat.dbmetadata, kind, schema, relname,
                        <<column>> \o metadata[schema][relname]),
              cat.all_completions \cup {column}, cat.exc)
     ELSE Cat(cat.dbmetadata, cat.all_completions, "KeyError")

\* Mutant of column_step: a pair whose relation is missing is skipped
\* silently.
column_step_skip_missing(cat, kind, schema, relname, column) ==
  LET metadata == cat.dbmetadata[kind]
  IN IF schema \in DOMAIN metadata /\ relname \in DOMAIN metadata[schema]
     THEN Cat(SetObject(cat.dbmetadata, kind, schema, relname,
                        Append(metadata[schema][relname], column)),
              cat.all_completions \cup {column}, cat.exc)
     ELSE cat

\* the body of the loop of extend_columns
column_step(cat, kind, schema, relname, column) ==
  LET metadata == cat.dbmetadata[kind]
  IN IF schema \in DOMAIN metadata /\ relname \in DOMAIN metadata[schema]
     THEN Cat(SetObject(cat.dbmetadata, kind, schema, relname,
                        Append(metadata[schema][relname], column)),
              cat.all_completions \cup {column}, cat.exc)
     ELSE Cat(cat.dbmetadata, cat.all_completions, "KeyError")

RECURSIVE columns_loop(_, _, _, _, _)
columns_loop(cat, column_data, kind, schema, i) ==
  IF i > Len(column_data) \/ cat.exc # "ok" THEN cat
  ELSE columns_loop(column_step(cat, kind, schema, column_data[i][1], column_data[i][2]),
                    column_data, kind, schema, i + 1)

\* the body of the loop of extend_functions
function_step(cat, schema, func) ==
  LET metadata == cat.dbmetadata["functions"]
  IN IF schema \in DOMAIN metadata
     THEN Cat(SetObject(cat.dbmetadata, "functions", schema, func[1], None),
              cat.all_completions \cup {func[1]}, cat.exc)
     ELSE Cat(cat.dbmetadata, cat.all_completions, "KeyError")

RECURSIVE functions_loop(_, _, _, _)
functions_loop(cat, func_data, schema, i) ==
  IF i > Len(func_data) \/ cat.exc # "ok" THEN cat
  ELSE functions_loop(function_step(cat, schema, func_data[i]), func_data, schema, i + 1)

\* the completer's catalog now
Now == Cat(dbmetadata, all_completions, "ok")

\* what an extension call leaves: the catalog `cat`
Leaves(cat) ==
  /\ dbmetadata' = cat.dbmetadata
  /\ all_completions' = cat.all_completions
  /\ outcome' = cat.exc
  /\ returned' = None
  /\ nops' = nops + 1
  /\ UNCHANGED <<keywords, change_items, special_commands, databases, users,
                 show_items, dbname>>

extend_schemata(schemas) ==
  /\ nops < MaxOps
  /\ Leaves(schemata_loop(Now, schemas, 1))
  /\ call' = Call("extend_schemata", schemas, None, None)

extend_relations(data, kind, schema) ==
  /\ nops < MaxOps
  /\ Leaves(relations_loop(Now, escaped_rows(data), kind, upper(schema), 1))
  /\ call' = Call("extend_relations", data, kind, schema)

extend_columns(column_data, kind, schema) ==
  /\ nops < MaxOps
  /\ Leaves(columns_loop(Now, escaped_rows(column_data), kind, upper(schema), 1))
  /\ call' = Call("extend_columns", column_data, kind, schema)

extend_functions(func_data, schema) ==
  /\ nops < MaxOps
  /\ Leaves(functions_loop(Now, escaped_rows(func_data), schema, 1))
  /\ call' = Call("extend_functions", func_data, None, schema)

\* ------------------------------------------------------------------ vocabulary
\* the rows of a result set, one after the other: list.extend(row) per row
RECURSIVE flatten(_)
flatten(rows) == IF rows = <<>> THEN <<>> ELSE Head(rows) \o flatten(Tail(rows))

\* what a vocabulary call leaves besides the vocabulary it extends
Extends(op, items, ac) ==
  /\ nops < MaxOps
  /\ all_completions' = ac
  /\ call' = Call(op, items, None, None)
  /\ outcome' = "ok"
  /\ returned' = None
  /\ nops' = nops + 1
  /\ UNCHANGED <<dbmetadata, dbname>>

extend_special_commands(cmds) ==
  /\ Extends("extend_special_commands", cmds, all_completions)
  /\ special_commands' = special_commands \o cmds
  /\ UNCHANGED <<keywords, change_items, databases, users, show_items>>

extend_database_names(dbs) ==
  /\ Extends("extend_database_names", dbs, all_completions)
  /\ databases' = databases \o dbs
  /\ UNCHANGED <<keywords, change_items, special_commands, users, show_items>>

extend_keywords(additional_keywords) ==
  /\ Extends("extend_keywords", additional_keywords,
             all_completions \cup Range(additional_keywords))
  /\ keywords' = keywords \o additional_keywords
  /\ UNCHANGED <<change_items, special_commands, databases, users, show_items>>

extend_show_items(items) ==
  /\ Extends("extend_show_items", items, all_completions \cup Range(flatten(items)))
  /\ show_items' = show_items \o flatten(items)
  /\ UNCHANGED <<keywords, change_items, special_commands, databases, users>>

extend_change_items(items) ==
  /\ Extends("extend_change_items", items, all_completions \cup Range(flatten(items)))
  /\ change_items' = change_items \o flatten(items)
  /\ UNCHANGED <<keywords, special_commands, databases, users, show_items>>

extend_users(rows) ==
  /\ Extends("extend_users", rows, all_completions \cup Range(flatten(rows)))
  /\ users' = users \o flatten(rows)
  /\ UNCHANGED <<keywords, change_items, special_commands, databases, show_items>>

set_dbname(name) ==
  /\ nops < MaxOps
  /\ dbname' = upper(name)
  /\ call' = Call("set_dbname", name, None, None)
  /\ outcome' = "ok"
  /\ returned' = None
  /\ nops' = nops + 1
  /\ UNCHANGED <<keywords, change_items, special_commands, databases, users,
                 show_items, dbmetadata, all_completions>>

\* ------------------------------------------------------------------ find_matches
\* parseutils.last_word(text, include='most_punctuations'): the longest
\* suffix of text holding no whitespace and none of . ( ) : ,
WordBoundary == {" ", ".", "(", ")", ":", ","}

last_word(text) ==
  LET cuts == {i \in 1..Len(text) : text[i] \in WordBoundary}
      from == IF cuts = {} THEN 1 ELSE (CHOOSE i \in cuts : \A j \in cuts : j <= i) + 1
  IN SubSeq(text, from, Len(text))

\* the list is in ascending order
in_order(s) == \A i \in 1..(Len(s) - 1) : ~str_lt(s[i + 1], s[i])

\* sorted() of a list of str: the list as it is when it is in order, else
\* the elements below its middle one, sorted, the elements equal to it, and
\* the elements above it, sorted
RECURSIVE sorted(_)
sorted(s) ==
  IF in_order(s) THEN s
  ELSE LET pivot == s[(Len(s) + 1) \div 2]
           below(x) == str_lt(x, pivot)
           equal(x) == x = pivot
           above(x) == str_lt(pivot, x)
       IN sorted(SelectSeq(s, below)) \o SelectSeq(s, equal) \o sorted(SelectSeq(s, above))

\* Mutant of tuple_lt: equal scores are ordered by descending item.
tuple_lt_item_descending(a, b) ==
  \/ a[1] < b[1]
  \/ a[1] = b[1] /\ a[2] < b[2]
  \/ a[1] = b[1] /\ a[2] = b[2] /\ str_lt(b[3], a[3])

\* (x, y, z) < (x2, y2, z2) for the tuples (length, start, item) of find_matches
tuple_lt(a, b) ==
  \/ a[1] < b[1]
  \/ a[1] = b[1] /\ a[2] < b[2]
  \/ a[1] = b[1] /\ a[2] = b[2] /\ str_lt(a[3], b[3])

\* the list of tuples is in ascending order
tuples_in_order(s) == \A i \in 1..(Len(s) - 1) : ~tuple_lt(s[i + 1], s[i])

\* sorted() of a list of tuples (length, start, item), as sorted() above
RECURSIVE sorted_tuples(_)
sorted_tuples(s) ==
  IF tuples_in_order(s) THEN s
  ELSE LET pivot == s[(Len(s) + 1) \div 2]
           below(x) == tuple_lt(x, pivot)
           equal(x) == x = pivot
           above(x) == tuple_lt(pivot, x)
       IN sorted_tuples(SelectSeq(s, below)) \o SelectSeq(s, equal)
          \o sorted_tuples(SelectSeq(s, above))

\* The pattern c1.*?c2.*? ... cn tried at one position: having matched the
\* characters before text[i], the last of them at position p of item, the
\* position where the match ends, 0 when there is none. A gap .*? holds no
\* line break and is tried shortest first; a longer one is tried when the
\* rest of the pattern does not match after the shorter.
RECURSIVE match_end(_, _, _, _)
match_end(text, item, i, p) ==
  IF i > Len(text) THEN p
  ELSE LET next == {q \in (p + 1)..Len(item) :
                      /\ item[q] = text[i]
                      /\ \A r \in (p + 1)..(q - 1) : item[r] # "\n"
                      /\ match_end(text, item, i + 1, q) # 0}
       IN IF next = {} THEN 0 ELSE match_end(text, item, i + 1, SetMin(next))

\* pat.search(item) for pat = compile('(%s)' % '.*?'.join(map(escape, text))):
\* <<len(r.group()), r.start()>>, or <<>> when there is no match
re_search(text, item) ==
  IF text = <<>> THEN <<0, 0>>
  ELSE LET starts == {s \in 1..Len(item) :
                        item[s] = text[1] /\ match_end(text, item, 2, s) # 0}
       IN IF starts = {} THEN <<>>
          ELSE LET s == SetMin(starts)
               IN <<match_end(text, item, 2, s) - s + 1, s - 1>>

\* hay.find(needle, 0, end), end = -1 standing for None
str_find(hay, needle, end) ==
  LET lim == IF end = -1 \/ end > Len(hay) THEN Len(hay) ELSE end
      at == {p \in 0..lim : p + Len(needle) <= lim
                            /\ SubSeq(hay, p + 1, p + Len(needle)) = needle}
  IN IF at = {} THEN -1 ELSE SetMin(at)

\* the tuples (length, start, item) collected by the fuzzy loop of
\* find_matches: one for each item the pattern matches, in the items' order
fuzzy_loop(text, items) ==
  LET r == [i \in DOMAIN items |-> re_search(text, lower(items[i]))]
      found == [i \in DOMAIN items |->
                  IF r[i] = <<>> THEN <<>> ELSE <<r[i][1], r[i][2], items[i]>>]
      matched(t) == t # <<>>
  IN SelectSeq(found, matched)

\* the tuples collected by the other loop of find_matches
find_loop(text, items, start_only) ==
  LET match_end_limit == IF start_only THEN Len(text) ELSE -1
      found == [i \in DOMAIN items |->
                  <<Len(text), str_find(lower(items[i]), text, match_end_limit), items[i]>>]
      matched(t) == t[2] >= 0
  IN SelectSeq(found, matched)

\* prompt_toolkit's Completion(text, start_position)
Completion(text, start_position) == [text |-> text, start_position |-> start_position]

\* Mutant of find_matches: the offset covers the whole text before the
\* cursor, not only its last word.
find_matches_whole_text(text, collection, start_only, fuzzy) ==
  LET word == lower(last_word(text))
      completions == IF fuzzy THEN fuzzy_loop(word, sorted(collection))
                     ELSE find_loop(word, sorted(collection), start_only)
      ranked == sorted_tuples(completions)
  IN [i \in 1..Len(ranked) |-> Completion(ranked[i][3], -Len(text))]

\* SQLCompleter.find_matches, `collection` a list
find_matches(text, collection, start_only, fuzzy) ==
  LET word == lower(last_word(text))
      completions == IF fuzzy THEN fuzzy_loop(word, sorted(collection))
                     ELSE find_loop(word, sorted(collection), start_only)
      ranked == sorted_tuples(completions)
  IN [i \in 1..Len(ranked) |-> Completion(ranked[i][3], -Len(word))]

\* ------------------------------------------------------------------ lookups
\* d[k1][k2] raises KeyError
KeyError2(d, k1, k2) == k1 \notin DOMAIN d \/ k2 \notin DOMAIN d[k1]

\* Mutant of scoped_cols_of: the views are consulted before the tables.
scoped_cols_of_views_first(md, db, tbl) ==
  LET schema == upper(IF falsy(tbl[1]) THEN db ELSE tbl[1])
      relname == tbl[2]
      escaped_relname == escape_name(tbl[2])
  IN IF ~KeyError2(md["views"], schema, relname) THEN md["views"][schema][relname]
     ELSE IF ~KeyError2(md["tables"], schema, relname) THEN md["tables"][schema][relname]
     ELSE IF ~KeyError2(md["tables"], schema, escaped_relname)
          THEN md["tables"][schema][escaped_relname]
     ELSE <<>>

\* the columns one table reference adds in populate_scoped_cols
scoped_cols_of(md, db, tbl) ==
  LET schema == upper(IF falsy(tbl[1]) THEN db ELSE tbl[1])
      relname == tbl[2]
      escaped_relname == escape_name(tbl[2])
  IN IF ~KeyError2(md["tables"], schema, relname) THEN md["tables"][schema][relname]
     ELSE IF ~KeyError2(md["tables"], schema, escaped_relname)
          THEN md["tables"][schema][escaped_relname]
     ELSE IF ~KeyError2(md["views"], schema, relname) THEN md["views"][schema][relname]
     ELSE <<>>

RECURSIVE scoped_cols_loop(_, _, _, _)
scoped_cols_loop(md, db, scoped_tbls, i) ==
  IF i > Len(scoped_tbls) THEN <<>>
  ELSE scoped_cols_of(md, db, scoped_tbls[i]) \o scoped_cols_loop(md, db, scoped_tbls, i + 1)

\* SQLCompleter.populate_scoped_cols on the completer's state
populate_scoped_cols(scoped_tbls) == scoped_cols_loop(dbmetadata, dbname, scoped_tbls, 1)

\* SQLCompleter.populate_schema_objects on the completer's state: the keys,
\* as a set
populate_schema_objects(schema, obj_type) ==
  LET metadata == dbmetadata[obj_type]
      schema_u == upper(IF falsy(schema) THEN dbname ELSE schema)
  IN IF schema_u \in DOMAIN metadata THEN DOMAIN metadata[schema_u] ELSE {}

\* ------------------------------------------------------------------ get_completions
\* self.smart_completion, as __init__ defaults it
smart_completion_default == TRUE
\* self.table_formats, as __init__ defaults it
table_formats == <<>>
\* favoritequeries.list()
favoritequeries_list == <<>>

\* Mutant of drop_unique_cols: the wildcard is not left out.
drop_unique_cols_with_star(scoped_cols) ==
  LET count(c) == Cardinality({i \in DOMAIN scoped_cols : scoped_cols[i] = c})
      firsts == {i \in DOMAIN scoped_cols :
                   \A j \in 1..(i - 1) : scoped_cols[j] # scoped_cols[i]}
      keep == {i \in firsts : count(scoped_cols[i]) > 1}
      RECURSIVE pick(_)
      pick(i) == IF i > Len(scoped_cols) THEN <<>>
                 ELSE (IF i \in keep THEN <<scoped_cols[i]>> ELSE <<>>) \o pick(i + 1)
  IN pick(1)

\* Counter(scoped_cols).items(), filtered: the columns that occur more than
\* once, by first occurrence, without '*'
drop_unique_cols(scoped_cols) ==
  LET count(c) == Cardinality({i \in DOMAIN scoped_cols : scoped_cols[i] = c})
      firsts == {i \in DOMAIN scoped_cols :
                   \A j \in 1..(i - 1) : scoped_cols[j] # scoped_cols[i]}
      keep == {i \in firsts : count(scoped_cols[i]) > 1 /\ scoped_cols[i] # Star}
      RECURSIVE pick(_)
      pick(i) == IF i > Len(scoped_cols) THEN <<>>
                 ELSE (IF i \in keep THEN <<scoped_cols[i]>> ELSE <<>>) \o pick(i + 1)
  IN pick(1)

\* a suggestion of suggest_type
Suggestion(type, schema, tables, drop_unique, aliases) ==
  [type |-> type, schema |-> schema, tables |-> tables, drop_unique |-> drop_unique,
   aliases |-> aliases]

\* what one suggestion adds to the completions
suggestion_completions(word, suggestion) ==
  LET type == suggestion.type
  IN CASE type = "column" ->
            LET scoped_cols == populate_scoped_cols(suggestion.tables)
                cols == IF suggestion.drop_unique THEN drop_unique_cols(scoped_cols)
                        ELSE scoped_cols
            IN find_matches(word, cols, FALSE, TRUE)
       [] type = "function" ->
            find_matches(word, sorted_set(populate_schema_objects(suggestion.schema, "functions")),
                         FALSE, TRUE)
            \o (IF falsy(suggestion.schema) THEN find_matches(word, functions, TRUE, FALSE)
                ELSE <<>>)
       [] type = "table" ->
            find_matches(word, sorted_set(populate_schema_objects(suggestion.schema, "tables")),
                         FALSE, TRUE)
       [] type = "view" ->
            find_matches(word, sorted_set(populate_schema_objects(suggestion.schema, "views")),
                         FALSE, TRUE)
       [] type = "alias" -> find_matches(word, suggestion.aliases, FALSE, TRUE)
       [] type \in {"database", "schema"} -> find_matches(word, databases, FALSE, TRUE)
       [] type = "keyword" -> find_matches(word, keywords, TRUE, FALSE)
       [] type = "show" -> find_matches(word, show_items, FALSE, TRUE)
       [] type = "change" -> find_matches(word, change_items, FALSE, TRUE)
       [] type = "user" -> find_matches(word, users, FALSE, TRUE)
       [] type = "special" -> find_matches(word, special_commands, TRUE, FALSE)
       [] type = "favoritequery" -> find_matches(word, favoritequeries_list, FALSE, TRUE)
       [] type = "table_format" -> find_matches(word, table_formats, TRUE, FALSE)
       [] OTHER -> <<>>

\* Mutant of suggestions_loop: the completions of a later suggestion are
\* put ahead of those of the earlier ones.
RECURSIVE suggestions_loop_prepend(_, _, _)
suggestions_loop_prepend(word, suggestions, i) ==
  IF i > Len(suggestions) THEN <<>>
  ELSE suggestions_loop_prepend(word, suggestions, i + 1)
       \o suggestion_completions(word, suggestions[i])

RECURSIVE suggestions_loop(_, _, _)
suggestions_loop(word, suggestions, i) ==
  IF i > Len(suggestions) THEN <<>>
  ELSE suggestion_completions(word, suggestions[i]) \o suggestions_loop(word, suggestions, i + 1)

\* the value get_completions returns; the argument smart_completion is
\* "None", "True" or "False"
completions_of(word_before_cursor, suggestions, smart_completion) ==
  LET smart == IF smart_completion = "None" THEN smart_completion_default
               ELSE smart_completion = "True"
  IN IF ~smart
     THEN find_matches(word_before_cursor, sorted_set(all_completions), TRUE, FALSE)
     ELSE suggestions_loop(word_before_cursor, suggestions, 1)

get_completions(word_before_cursor, suggestions, smart_completion) ==
  /\ nops < MaxOps
  /\ returned' = completions_of(word_before_cursor, suggestions, smart_completion)
  /\ call' = [op |-> "get_completions", word |-> word_before_cursor,
              suggestions |-> suggestions, smart_completion |-> smart_completion]
  /\ outcome' = "ok"
  /\ nops' = nops + 1
  /\ UNCHANGED <<keywords, change_items, special_commands, databases, users,
                 show_items, dbname, dbmetadata, all_completions>>

\* ------------------------------------------------------------------ inputs
SchemaLists == {<<s_hr>>, <<s_hr, s_S>>}
KeywordLists == {<<n_kw>>}
DatabaseLists == {<<n_db>>}
UserRows == {<< <<n_bob>> >>}
ItemRows == {<< <<n_it>> >>}
CommandLists == {<< <<"\\","d">> >>}

w_su == <<"s","u">>
FunctionRequest == Suggestion("function", None, <<>>, FALSE, <<>>)
Words == {w_su}
Requests == {<<FunctionRequest>>}

Next ==
  \/ reset_completions
  \/ \E name \in {s_hr} : set_dbname(name)
  \/ \E cmds \in CommandLists : extend_special_commands(cmds)
  \/ \E dbs \in DatabaseLists : extend_database_names(dbs)
  \/ \E kws \in KeywordLists : extend_keywords(kws)
  \/ \E items \in ItemRows : extend_show_items(items)
  \/ \E items \in ItemRows : extend_change_items(items)
  \/ \E rows \in UserRows : extend_users(rows)
  \/ \E schemas \in SchemaLists : extend_schemata(schemas)
  \/ \E data \in RelationData, kind \in RelKinds, schema \in {s_hr, s_S} :
       extend_relations(data, kind, schema)
  \/ \E data \in ColumnData, kind \in RelKinds, schema \in {s_hr, s_S} :
       extend_columns(data, kind, schema)
  \/ \E data \in FunctionData, schema \in SchemaNames : extend_functions(data, schema)
  \/ \E word \in Words, suggestions \in Requests, smart \in {"None"} :
       get_completions(word, suggestions, smart)

Spec == Init /\ [][Next]_vars

\* ------------------------------------------------------------------ completion requests
\* A session that fills one schema and asks for completions: the
\* suggestions are what suggest_type hands to get_completions.
w_empty == <<>>
w_s == <<"s">>
w_sel == <<"s","e","l">>
SELECT == <<"S","E","L","E","C","T">>

ThreePairs == Yields(<< <<n_emp, n_a>>, <<n_emp, n_b>>, <<n_T, n_a>> >>)
TwoTables == << <<s_hr, n_emp, None>>, <<s_hr, n_T, None>> >>

ColumnRequest == Suggestion("column", None, TwoTables, FALSE, <<>>)
UsingRequest == Suggestion("column", None, TwoTables, TRUE, <<>>)
KeywordRequest == Suggestion("keyword", None, <<>>, FALSE, <<>>)
UnknownRequest == Suggestion("procedure", None, <<>>, FALSE, <<>>)

w_t_s == <<"t",".","s">>
QueryWords == {w_empty, w_s, w_sel, w_t_s, n_a}
QueryRequests ==
  { <<ColumnRequest>>, <<UsingRequest>>, <<KeywordRequest>>,
    <<FunctionRequest, KeywordRequest>>,
    <<ColumnRequest, UnknownRequest, KeywordRequest>> }

NextQuery ==
  \/ set_dbname(s_hr)
  \/ extend_schemata(<<s_hr>>)
  \/ \E kind \in RelKinds : extend_relations(Yields(<< <<n_emp>>, <<n_T>> >>), kind, s_hr)
  \/ \E kind \in RelKinds : extend_columns(ThreePairs, kind, s_hr)
  \/ extend_functions(Yields(<< <<n_f>>, <<n_SUM>> >>), s_HR)
  \/ \E word \in QueryWords, suggestions \in QueryRequests :
       get_completions(word, suggestions, "None")
  \/ \E word \in {w_s, w_t_s} : get_completions(word, <<KeywordRequest>>, "False")

QuerySpec == Init /\ [][NextQuery]_vars

\* ------------------------------------------------------------------ direct matching
\* find_matches is a static method: it is called here on its own, on
\* collections of candidate names.
c_EMPLOYEE_ID == <<"E","M","P","L","O","Y","E","E","_","I","D">>
c_FIRST_NAME == <<"F","I","R","S","T","_","N","A","M","E">>
c_LAST_NAME == <<"L","A","S","T","_","N","A","M","E">>
c_abxb == <<"a","b","x","b">>
c_axb == <<"a","x","b">>
c_Ab == <<"A","b">>
c_xab == <<"x","a","b">>
c_axab == <<"a","x","a","b">>
c_a_nl_b == <<"a","\n","b">>
c_a_nl_ab == <<"a","\n","a","b">>

MatchTexts ==
  { <<>>, <<"f","i","r">>, <<"a","b">>, <<"A","B">>, <<"n","a">>, <<"e">>,
    <<"t",".","n","a">>, <<"x"," ">>, <<"l","m">> }
MatchCollections ==
  { <<c_EMPLOYEE_ID, c_FIRST_NAME, c_LAST_NAME>>,
    <<c_axb, c_abxb, c_xab, c_Ab>>,
    <<c_xab, c_Ab, c_Ab, Star>>,
    <<c_axab, c_axb, c_xab>>,
    <<c_a_nl_ab, c_axb, c_a_nl_b>>,
    <<>> }

find_matches_call(text, collection, start_only, fuzzy) ==
  /\ nops < MaxOps
  /\ returned' = find_matches(text, collection, start_only, fuzzy)
  /\ call' = [op |-> "find_matches", text |-> text, collection |-> collection,
              start_only |-> start_only, fuzzy |-> fuzzy]
  /\ outcome' = "ok"
  /\ nops' = nops + 1
  /\ UNCHANGED <<keywords, change_items, special_commands, databases, users,
                 show_items, dbname, dbmetadata, all_completions>>

NextMatch ==
  \E text \in MatchTexts, collection \in MatchCollections,
     start_only \in BOOLEAN, fuzzy \in BOOLEAN :
       find_matches_call(text, collection, start_only, fuzzy)

MatchSpec == Init /\ [][NextMatch]_vars

\* ------------------------------------------------------------------ claims
AllKinds == {"tables", "views", "functions"}
ExtensionOps == {"extend_relations", "extend_columns", "extend_functions"}
VocabularyOps == {"extend_special_commands", "extend_database_names", "extend_keywords",
                  "extend_show_items", "extend_change_items", "extend_users"}

\* the names (first elements) of the rows of a batch
NamesOf(items) == {items[i][1] : i \in DOMAIN items}

\* the columns the pairs of a batch give to relation rel, in batch order
RECURSIVE ColumnsOf(_, _)
ColumnsOf(items, rel) ==
  IF items = <<>> THEN <<>>
  ELSE (IF Head(items)[1] = rel THEN <<Head(items)[2]>> ELSE <<>>)
       \o ColumnsOf(Tail(items), rel)

\* C1: after reset_completions the global completion set is exactly the
\* keyword vocabulary united with the built-in function vocabulary, the
\* tables, views and functions maps hold no schema, and an extend_schemata
\* that follows returns normally and registers its schemas.
C1_ResetCompletions ==
  call.op = "reset_completions" =>
    /\ all_completions = Range(keywords) \cup Range(functions)
    /\ \A kind \in AllKinds : DOMAIN dbmetadata[kind] = {}
    /\ \A schemas \in SchemaLists :
         LET after == schemata_loop(Now, schemas, 1)
         IN /\ after.exc = "ok"
            /\ \A i \in DOMAIN schemas, kind \in AllKinds :
                 upper(schemas[i]) \in DOMAIN after.dbmetadata[kind]

\* C1 witness: a reset made after extend_keywords and after a schema was
\* registered (nothing of which is left in the maps).
C1_Witness ==
  /\ call.op = "reset_completions"
  /\ n_kw \in Range(keywords)
  /\ n_kw \in all_completions
  /\ <<"H">> \notin all_completions
  /\ nops >= 3

\* C2: after reset_completions the database names, the user names, the
\* show-items and the change-items are empty and the current database name
\* is the empty string.
C2_ResetClearsSessionVocabularies ==
  call.op = "reset_completions" =>
    /\ databases = <<>>
    /\ users = <<>>
    /\ show_items = <<>>
    /\ change_items = <<>>
    /\ dbname = <<>>

\* C3 as claimed: when extend_columns returns normally, for every relation R
\* of its batch that extend_relations had registered (its column list was
\* still the initial one), populate_scoped_cols([(S, R, None)]) is exactly
\* the columns the batch gives R, in batch order.
C3_ScopedColsAreTheColumns ==
  [][(call'.op = "extend_columns" /\ outcome' = "ok" /\ ~call'.data.raises) =>
       \A rel \in NamesOf(call'.data.items) :
         dbmetadata[call'.kind][upper(call'.schema)][rel] = <<Star>> =>
           scoped_cols_loop(dbmetadata', dbname', << <<call'.schema, rel, None>> >>, 1)
             = ColumnsOf(call'.data.items, rel)]_vars

\* C3 amended: in that case populate_scoped_cols([(S, R, None)]) is the
\* wildcard '*' followed by the columns the batch gives R, in batch order,
\* provided that, when R is a view, no table named R is registered in S.
C3_ScopedColsAreStarThenColumns ==
  [][(call'.op = "extend_columns" /\ outcome' = "ok" /\ ~call'.data.raises) =>
       \A rel \in NamesOf(call'.data.items) :
         ( /\ dbmetadata[call'.kind][upper(call'.schema)][rel] = <<Star>>
           /\ call'.kind = "views" =>
                KeyError2(dbmetadata["tables"], upper(call'.schema), rel) ) =>
           scoped_cols_loop(dbmetadata', dbname', << <<call'.schema, rel, None>> >>, 1)
             = <<Star>> \o ColumnsOf(call'.data.items, rel)]_vars

\* C3 witness: extend_columns has just given the registered table emp of
\* schema HR the columns a, b, and the scope resolver returns *, a, b.
C3_Witness ==
  /\ call.op = "extend_columns"
  /\ outcome = "ok"
  /\ call.kind = "tables"
  /\ call.data = Yields(<< <<n_emp, n_a>>, <<n_emp, n_b>> >>)
  /\ populate_scoped_cols(<< <<call.schema, n_emp, None>> >>) = <<Star, n_a, n_b>>

\* the positions of a candidate text in a returned sequence of completions
PositionsOf(text, completions) == {i \in DOMAIN completions : completions[i].text = text}

SUBSTR == <<"S","U","B","S","T","R">>

IsSuFunctionCall ==
  /\ call.op = "get_completions"
  /\ call.word = w_su
  /\ call.suggestions = <<FunctionRequest>>
  /\ call.smart_completion = "None"

\* C4 as claimed: for a function request with no schema qualifier and the
\* word "su", get_completions returns SUM and SUBSTR, SUM before SUBSTR.
C4_SumBeforeSubstr ==
  IsSuFunctionCall =>
    /\ PositionsOf(n_SUM, returned) # {}
    /\ PositionsOf(SUBSTR, returned) # {}
    /\ SetMin(PositionsOf(n_SUM, returned)) < SetMin(PositionsOf(SUBSTR, returned))

\* C4 amended: get_completions returns both, and the returned sequence ends
\* with SUBSTR followed by SUM: the two built-in names match with the same
\* span and offset and the tie is broken by the candidate text.
C4_SubstrBeforeSum ==
  IsSuFunctionCall =>
    /\ Len(returned) >= 2
    /\ returned[Len(returned) - 1] = Completion(SUBSTR, -2)
    /\ returned[Len(returned)] = Completion(n_SUM, -2)
    /\ PositionsOf(SUBSTR, returned) = {Len(returned) - 1}

\* C4 witness: the request was served while the current database holds a
\* user-defined function SUM, which is returned ahead of the built-in names.
C4_Witness ==
  /\ IsSuFunctionCall
  /\ n_SUM \in populate_schema_objects(None, "functions")
  /\ Len(returned) = 3

\* C5: the global completion set holds every name registered, since the last
\* reset, by a call that returned normally: database names, user names,
\* raw schema names, relation names, column names and function names.
C5_CompletionsHoldEveryRegisteredName ==
  /\ Range(databases) \subseteq all_completions
  /\ Range(users) \subseteq all_completions
  /\ \A kind \in AllKinds : \A schema \in DOMAIN dbmetadata[kind] :
       DOMAIN dbmetadata[kind][schema] \subseteq all_completions
  /\ \A kind \in RelKinds : \A schema \in DOMAIN dbmetadata[kind] :
       \A rel \in DOMAIN dbmetadata[kind][schema] :
         Range(dbmetadata[kind][schema][rel]) \ {Star} \subseteq all_completions
  /\ (call.op = "extend_schemata" /\ outcome = "ok") => Range(call.data) \subseteq all_completions

\* C6: extend_schemata, extend_relations, extend_functions and the
\* vocabulary extensions return normally in every state and for every input.
C6_PopulationReturnsNormally ==
  call.op \in {"extend_schemata", "extend_relations", "extend_functions"} \cup VocabularyOps
    => outcome = "ok"

\* C7: when the lazy sequence given to extend_relations, extend_columns or
\* extend_functions raises during enumeration, the call returns normally and
\* leaves the object maps and the global completion set as they were.
C7_EnumerationFailureAddsNothing ==
  [][(call'.op \in ExtensionOps /\ call'.data.raises) =>
       /\ outcome' = "ok"
       /\ dbmetadata' = dbmetadata
       /\ all_completions' = all_completions]_vars

\* C7 witness: a sequence that raised after yielding entries, given to
\* extend_relations for a registered schema and to extend_columns for a
\* registered relation: the entries it yielded were not added.
C7_Witness ==
  /\ call.op \in {"extend_relations", "extend_columns"}
  /\ call.data.raises
  /\ Len(call.data.items) > 0
  /\ upper(call.schema) \in DOMAIN dbmetadata[call.kind]
  /\ call.op = "extend_columns" =>
       /\ n_emp \in DOMAIN dbmetadata[call.kind][upper(call.schema)]
       /\ n_a \notin all_completions
  /\ call.op = "extend_relations" => n_T \notin all_completions

\* C8: extend_relations for a schema that is not registered returns
\* normally, leaves the object maps as they were (no schema key, no relation
\* entry) and adds every relation name of the batch to the global completion
\* set.
C8_UnknownSchemaSkipsRelations ==
  [][(/\ call'.op = "extend_relations"
      /\ ~call'.data.raises
      /\ upper(call'.schema) \notin DOMAIN dbmetadata[call'.kind]) =>
       /\ outcome' = "ok"
       /\ dbmetadata' = dbmetadata
       /\ all_completions' = all_completions \cup NamesOf(call'.data.items)]_vars

\* C8 witness: a batch of two relations given for the unregistered schema S
\* while HR is registered; both names are in the global completion set.
C8_Witness ==
  /\ call.op = "extend_relations"
  /\ ~call.data.raises
  /\ Len(call.data.items) = 2
  /\ call.schema = s_S
  /\ DOMAIN dbmetadata[call.kind] = {s_HR}
  /\ {n_emp, n_T} \subseteq all_completions

\* the first pair of a batch whose relation is not registered, 0 if none
FirstMissing(md, kind, schema, items) ==
  LET missing == {i \in DOMAIN items : KeyError2(md[kind], schema, items[i][1])}
  IN IF missing = {} THEN 0 ELSE SetMin(missing)

\* C9: extend_columns given a batch with a pair whose relation is not
\* registered in the schema raises; no entry is created for that relation,
\* the columns of the pairs before it stay appended and in the global
\* completion set, and the pairs after it are not applied.
C9_ColumnsOfMissingRelationRaise ==
  [][(/\ call'.op = "extend_columns"
      /\ ~call'.data.raises
      /\ FirstMissing(dbmetadata, call'.kind, upper(call'.schema), call'.data.items) # 0) =>
       LET kind == call'.kind
           schema == upper(call'.schema)
           items == call'.data.items
           applied == SubSeq(items, 1, FirstMissing(dbmetadata, kind, schema, items) - 1)
       IN /\ outcome' = "KeyError"
          /\ \A k \in AllKinds :
               /\ DOMAIN dbmetadata'[k] = DOMAIN dbmetadata[k]
               /\ \A sc \in DOMAIN dbmetadata[k] :
                    /\ DOMAIN dbmetadata'[k][sc] = DOMAIN dbmetadata[k][sc]
                    /\ \A rel \in DOMAIN dbmetadata[k][sc] :
                         dbmetadata'[k][sc][rel] =
                           IF k = kind /\ sc = schema
                           THEN dbmetadata[k][sc][rel] \o ColumnsOf(applied, rel)
                           ELSE dbmetadata[k][sc][rel]
          /\ all_completions' = all_completions \cup {applied[i][2] : i \in DOMAIN applied}]_vars

\* C9 witness: the batch (emp, a), (T, b) given while emp is registered and
\* T is not: the call raised, a stays appended to emp, b was not added.
C9_Witness ==
  /\ call.op = "extend_columns"
  /\ outcome = "KeyError"
  /\ call.data = Yields(<< <<n_emp, n_a>>, <<n_T, n_b>> >>)
  /\ ~KeyError2(dbmetadata[call.kind], upper(call.schema), n_emp)
  /\ dbmetadata[call.kind][upper(call.schema)][n_emp] = <<Star, n_a>>
  /\ n_T \notin DOMAIN dbmetadata[call.kind][upper(call.schema)]
  /\ n_a \in all_completions
  /\ n_b \notin all_completions

\* C10 as claimed: every schema key and every relation or function name that
\* is a key of the object maps equals its own uppercase form.
C10_KeysAreUppercase ==
  \A kind \in AllKinds : \A schema \in DOMAIN dbmetadata[kind] :
    /\ schema = upper(schema)
    /\ \A name \in DOMAIN dbmetadata[kind][schema] : name = upper(name)

\* C10 amended: every schema key equals its own uppercase form, whatever
\* case the schema had when passed; a relation or function name is stored
\* exactly as it was passed.
C10_SchemaKeysAreUppercase ==
  /\ \A kind \in AllKinds : \A schema \in DOMAIN dbmetadata[kind] : schema = upper(schema)
  /\ (call.op = "extend_schemata") =>
       \A i \in DOMAIN call.data, kind \in AllKinds :
         upper(call.data[i]) \in DOMAIN dbmetadata[kind]
  /\ (/\ call.op = "extend_relations"
      /\ ~call.data.raises
      /\ upper(call.schema) \in DOMAIN dbmetadata[call.kind]) =>
       NamesOf(call.data.items) \subseteq DOMAIN dbmetadata[call.kind][upper(call.schema)]
  /\ (call.op = "extend_functions" /\ ~call.data.raises /\ outcome = "ok"
      /\ call.data.items # <<>>) =>
       NamesOf(call.data.items) \subseteq DOMAIN dbmetadata["functions"][call.schema]

\* C10 witness: the lowercase schema hr was passed to extend_schemata and the
\* lowercase relation emp to extend_relations; the key is HR, the name emp.
C10_Witness ==
  /\ call.op = "extend_relations"
  /\ call.schema = s_hr
  /\ s_HR \in DOMAIN dbmetadata[call.kind]
  /\ n_emp \in DOMAIN dbmetadata[call.kind][s_HR]
  /\ upper(n_emp) \notin DOMAIN dbmetadata[call.kind][s_HR]

\* ------------------------------------------------------------------ matching, stated on its own
\* the token find_matches extracts from the input text
Token(text) == lower(last_word(text))

\* t is a prefix of c
IsPrefix(t, c) == Len(t) <= Len(c) /\ \A i \in 1..Len(t) : c[i] = t[i]

\* t occurs in c as a contiguous substring
IsSubstring(t, c) ==
  \E p \in 0..(Len(c) - Len(t)) : \A i \in 1..Len(t) : c[p + i] = t[i]

\* the ways the characters of t appear in c, in order
Embeddings(t, c) ==
  {f \in [1..Len(t) -> 1..Len(c)] :
     /\ \A i \in 1..Len(t) : c[f[i]] = t[i]
     /\ \A i \in 1..(Len(t) - 1) : f[i] < f[i + 1]}

\* the characters of t appear in c in order
IsSubsequence(t, c) == Embeddings(t, c) # {}

\* the texts of a sequence of completions
TextsOf(completions) == {completions[i].text : i \in DOMAIN completions}

\* the number of times x occurs in sequence s
CountIn(x, s) == Cardinality({i \in DOMAIN s : s[i] = x})

\* C11: with drop_unique set, the column candidates are exactly the names
\* other than '*' that occur at least twice in the concatenated column
\* lists of the resolved references, each offered once (those of them the
\* word matches; all of them for the empty word).
C11_UsingOffersSharedColumns ==
  (/\ call.op = "get_completions"
   /\ call.smart_completion = "None"
   /\ call.suggestions = <<UsingRequest>>) =>
    LET cols == populate_scoped_cols(UsingRequest.tables)
        shared == {c \in Range(cols) : c # Star /\ CountIn(c, cols) >= 2}
        offered == {c \in shared : IsSubsequence(Token(call.word), lower(c))}
    IN /\ TextsOf(returned) = offered
       /\ Len(returned) = Cardinality(offered)
       /\ call.word = w_empty => offered = shared

\* C11 witness: tables emp (columns a, b) and T (column a) share exactly a;
\* the request with the empty word returns a alone, the wildcard that both
\* lists hold is not offered.
C11_Witness ==
  /\ call.op = "get_completions"
  /\ call.smart_completion = "None"
  /\ call.suggestions = <<UsingRequest>>
  /\ call.word = w_empty
  /\ populate_scoped_cols(TwoTables) = <<Star, n_a, n_b, Star, n_a>>
  /\ returned = <<Completion(n_a, 0)>>

\* whether candidate c matches token t under the mode of a find_matches call
MatchesUnder(fuzzy, start_only, t, c) ==
  IF fuzzy THEN IsSubsequence(t, lower(c))
  ELSE IF start_only THEN IsPrefix(t, lower(c))
  ELSE IsSubstring(t, lower(c))

\* C12 as claimed: find_matches returns a candidate only if it matches the
\* lowercased token under the selected mode, and returns every candidate
\* that does (as many times as the collection holds it): a prefix with
\* fuzzy=false and start_only=true, a contiguous substring with fuzzy=false
\* and start_only=false, a subsequence with fuzzy=true.
C12_MatchesExactlyTheMode ==
  call.op = "find_matches" =>
    LET t == Token(call.text)
        texts == [i \in DOMAIN returned |-> returned[i].text]
    IN /\ Range(texts) =
            {c \in Range(call.collection) : MatchesUnder(call.fuzzy, call.start_only, t, c)}
       /\ \A c \in Range(texts) : CountIn(c, texts) = CountIn(c, call.collection)

\* the schema arguments a lookup is made with
LookupSchemas == SchemaNames \cup {None, <<>>}

\* the key a lookup with schema argument `schema` reads
LookupKey(schema) == upper(IF schema \in {None, <<>>} THEN dbname ELSE schema)

\* C13: a schema registered by extend_schemata has its uppercased key in
\* each of the tables, views and functions maps, also before any object is
\* added to it, and no call but reset_completions removes a schema key;
\* populate_schema_objects for a schema that is not registered (or for an
\* empty current database) returns an empty collection.
C13_SchemaKeysStayUntilReset ==
  /\ [](/\ call.op = "extend_schemata" =>
             \A i \in DOMAIN call.data, kind \in AllKinds :
               upper(call.data[i]) \in DOMAIN dbmetadata[kind]
        /\ \A kind \in AllKinds : DOMAIN dbmetadata[kind] = DOMAIN dbmetadata["tables"]
        /\ \A schema \in LookupSchemas, kind \in AllKinds :
             LookupKey(schema) \notin DOMAIN dbmetadata[kind] =>
               populate_schema_objects(schema, kind) = {})
  /\ [][call'.op # "reset_completions" =>
          \A kind \in AllKinds : DOMAIN dbmetadata[kind] \subseteq DOMAIN dbmetadata'[kind]]_vars

\* C13 witness: HR was registered and holds no object yet, another call
\* followed, S is not registered and there is no current database: the
\* lookups for S and for no schema return nothing.
C13_Witness ==
  /\ call.op \in ExtensionOps
  /\ DOMAIN dbmetadata["views"] = {s_HR}
  /\ \A kind \in AllKinds : dbmetadata[kind][s_HR] = EmptyDict
  /\ dbname = <<>>
  /\ populate_schema_objects(s_S, "views") = {}
  /\ populate_schema_objects(None, "functions") = {}
  /\ populate_schema_objects(s_hr, "tables") = {}

\* the sequences of a sequence, one after the other
RECURSIVE Concatenation(_)
Concatenation(seqs) ==
  IF seqs = <<>> THEN <<>> ELSE Head(seqs) \o Concatenation(Tail(seqs))

\* C14: with smart completion enabled, get_completions returns normally the
\* concatenation, in request order, of the ranked result of each request on
\* its own; a request of an unrecognized kind contributes nothing.
C14_ConcatenationInRequestOrder ==
  (call.op = "get_completions" /\ call.smart_completion = "None") =>
    /\ outcome = "ok"
    /\ returned = Concatenation([i \in DOMAIN call.suggestions |->
                                   suggestion_completions(call.word, call.suggestions[i])])
    /\ \A i \in DOMAIN call.suggestions :
         call.suggestions[i].type = "procedure" =>
           suggestion_completions(call.word, call.suggestions[i]) = <<>>

\* C14 witness: a function request followed by a keyword request, word "s":
\* the twelve built-in functions that begin with S come first, then the two
\* keywords, although SELECT and SET would rank ahead of SIGN in one common
\* ranking.
C14_Witness ==
  /\ call.op = "get_completions"
  /\ call.smart_completion = "None"
  /\ call.word = w_s
  /\ call.suggestions = <<FunctionRequest, KeywordRequest>>
  /\ Len(returned) = 14
  /\ returned[1] = Completion(<<"S","E","S","S","I","O","N","T","I","M","E","Z","O","N","E">>, -1)
  /\ returned[2] = Completion(<<"S","I","G","N">>, -1)
  /\ returned[11] = Completion(<<"S","Y","S","T","I","M","E","S","T","A","M","P">>, -1)
  /\ returned[12] = Completion(<<"S","Y","S","_","C","O","N","T","E","X","T">>, -1)
  /\ returned[13] = Completion(SELECT, -1)
  /\ returned[14] = Completion(<<"S","E","T">>, -1)

\* C15: every completion get_completions takes from find_matches, in prefix
\* mode (keyword, built-in function) or fuzzy mode (column, named function),
\* has the offset minus the length of the last word of the text; the word
\* "sel" with a keyword request returns SELECT with offset -3.
C15_OffsetIsMinusTokenLength ==
  call.op = "get_completions" =>
    /\ \A i \in DOMAIN returned :
         returned[i].start_position = -Len(Token(call.word))
    /\ (call.word = w_sel /\ call.suggestions = <<KeywordRequest>>
        /\ call.smart_completion = "None" /\ SELECT \in Range(keywords))
         => Completion(SELECT, -3) \in Range(returned)

\* C15 witness: the word "t.s" ends in the token "s"; with the function SUM
\* registered in the current schema, a function request followed by a
\* keyword request returns SUM twice (fuzzy match of the registered name,
\* prefix match of the built-in one) and SELECT, each with offset -1.
C15_Witness ==
  /\ call.op = "get_completions"
  /\ call.word = w_t_s
  /\ call.smart_completion = "None"
  /\ call.suggestions = <<FunctionRequest, KeywordRequest>>
  /\ CountIn(Completion(n_SUM, -1), returned) = 2
  /\ Completion(SELECT, -1) \in Range(returned)
  /\ \A i \in DOMAIN returned : returned[i].start_position = -1

\* the offset where the earliest occurrence of t in c as a subsequence starts
FuzzyStart(t, c) ==
  IF t = <<>> THEN 0 ELSE SetMin({f[1] : f \in Embeddings(t, c)}) - 1

\* the length of the span from that offset to the earliest end of an
\* occurrence that starts there
FuzzySpan(t, c) ==
  IF t = <<>> THEN 0
  ELSE SetMin({f[Len(t)] : f \in {g \in Embeddings(t, c) : g[1] = FuzzyStart(t, c) + 1}})
       - FuzzyStart(t, c)

\* candidate c is not ranked after candidate d for token t
FuzzyBefore(t, c, d) ==
  LET lc == lower(c)
      ld == lower(d)
  IN \/ FuzzySpan(t, lc) < FuzzySpan(t, ld)
     \/ FuzzySpan(t, lc) = FuzzySpan(t, ld) /\ FuzzyStart(t, lc) < FuzzyStart(t, ld)
     \/ FuzzySpan(t, lc) = FuzzySpan(t, ld) /\ FuzzyStart(t, lc) = FuzzyStart(t, ld)
        /\ (c = d \/ str_lt(c, d))

\* C16 as claimed: in fuzzy mode every returned candidate holds the token as
\* a subsequence, and the output is ascending by (length of the span from
\* the earliest start to the earliest end from there, that start, candidate
\* text); "fir" over EMPLOYEE_ID, FIRST_NAME, LAST_NAME puts FIRST_NAME first.
C16_FuzzyRankedBySpanThenStart ==
  (call.op = "find_matches" /\ call.fuzzy) =>
    LET t == Token(call.text)
    IN /\ \A i \in DOMAIN returned : IsSubsequence(t, lower(returned[i].text))
       /\ \A i, j \in DOMAIN returned :
            i < j => FuzzyBefore(t, returned[i].text, returned[j].text)
       /\ (call.text = <<"f","i","r">>
           /\ call.collection = <<c_EMPLOYEE_ID, c_FIRST_NAME, c_LAST_NAME>>)
            => (returned # <<>> /\ returned[1].text = c_FIRST_NAME)

\* table references (schema, table, alias): with and without a schema, in
\* either letter case, and of a schema that is never registered
s_zz == <<"z","z">>
ScopeRefs ==
  { <<None, n_emp, None>>, <<s_hr, n_emp, None>>, <<s_HR, n_T, None>>,
    <<s_S, n_emp, None>>, <<s_zz, n_emp, None>> }
ScopeRefLists ==
  {<<>>} \cup {<<r>> : r \in ScopeRefs} \cup {<<r, r>> : r \in ScopeRefs}
  \cup { << <<s_hr, n_emp, None>>, <<s_HR, n_T, None>> >>,
         << <<s_HR, n_T, None>>, <<s_hr, n_emp, None>> >>,
         << <<None, n_emp, None>>, <<s_zz, n_emp, None>> >>,
         << <<s_S, n_emp, None>>, <<None, n_emp, None>> >> }

\* what one reference contributes
ScopedColumns(ref) ==
  LET schema == upper(IF ref[1] = None THEN dbname ELSE ref[1])
      tables == dbmetadata["tables"]
      views == dbmetadata["views"]
  IN IF schema \in DOMAIN tables /\ ref[2] \in DOMAIN tables[schema]
     THEN tables[schema][ref[2]]
     ELSE IF schema \in DOMAIN views /\ ref[2] \in DOMAIN views[schema]
     THEN views[schema][ref[2]]
     ELSE <<>>

\* C17: populate_scoped_cols returns, for a list of table references, the
\* concatenation in reference order of what each contributes: with the
\* schema the explicit one or else the current database, uppercased, the
\* table's column list if the schema's tables hold the relation, else the
\* view's if its views hold it, else nothing (also for an unknown schema).
C17_ScopedColsPerReference ==
  \A refs \in ScopeRefLists :
    populate_scoped_cols(refs) =
      Concatenation([i \in DOMAIN refs |-> ScopedColumns(refs[i])])

\* C17 witness: emp is registered in HR both as a table, with columns a and
\* b, and as a view without columns; the reference hr.emp given twice
\* contributes the table's list twice, a reference through the current
\* database contributes nothing while no database is set, and neither does
\* one to the unregistered schema zz.
C17_Witness ==
  /\ ~KeyError2(dbmetadata["tables"], s_HR, n_emp)
  /\ ~KeyError2(dbmetadata["views"], s_HR, n_emp)
  /\ dbmetadata["tables"][s_HR][n_emp] = <<Star, n_a, n_b>>
  /\ dbmetadata["views"][s_HR][n_emp] = <<Star>>
  /\ dbname = <<>>
  /\ populate_scoped_cols(<< <<s_hr, n_emp, None>>, <<s_hr, n_emp, None>> >>)
       = <<Star, n_a, n_b, Star, n_a, n_b>>
  /\ populate_scoped_cols(<< <<None, n_emp, None>>, <<s_zz, n_emp, None>> >>) = <<>>

\* the keys extend_schemata writes for its argument
NamedSchemas(schemas) == {upper(schemas[i]) : i \in DOMAIN schemas}

\* C18 as claimed: extend_schemata leaves the entries of every schema that
\* is already registered, the named ones included, as they were.
C18_ReregistrationKeepsEntries ==
  [][call'.op = "extend_schemata" =>
       \A kind \in AllKinds : \A schema \in DOMAIN dbmetadata[kind] :
         /\ schema \in DOMAIN dbmetadata'[kind]
         /\ dbmetadata'[kind][schema] = dbmetadata[kind][schema]]_vars

\* C18 amended: extend_schemata leaves every named schema, registered before
\* or not, with empty tables, views and functions entries, and leaves the
\* entries of every other schema as they were.
C18_ReregistrationEmptiesEntries ==
  [][call'.op = "extend_schemata" =>
       \A kind \in AllKinds :
         /\ DOMAIN dbmetadata'[kind] = DOMAIN dbmetadata[kind] \cup NamedSchemas(call'.data)
         /\ \A schema \in DOMAIN dbmetadata'[kind] :
              dbmetadata'[kind][schema] =
                IF schema \in NamedSchemas(call'.data) THEN EmptyDict
                ELSE dbmetadata[kind][schema]]_vars

\* C18 witness: hr has just been registered again; the column a in the
\* global completion set shows that HR, the only schema, held a relation
\* with that column, and its entries are empty now.
C18_Witness ==
  /\ call.op = "extend_schemata"
  /\ call.data = <<s_hr>>
  /\ n_a \in all_completions
  /\ \A kind \in AllKinds :
       DOMAIN dbmetadata[kind] = {s_HR} /\ dbmetadata[kind][s_HR] = EmptyDict

\* the pairs of a column batch that are applied to relations of `schema`:
\* none when the enumeration fails, else those before the first pair whose
\* relation is missing
AppliedPairs(md, kind, schema, data) ==
  IF data.raises THEN <<>>
  ELSE LET stop == FirstMissing(md, kind, schema, data.items)
       IN IF stop = 0 THEN data.items ELSE SubSeq(data.items, 1, stop - 1)

\* C19: the column list of every registered table or view is never empty and
\* begins with '*'; a call changes it in two ways only: extend_relations
\* that registers the relation makes it the single '*', and extend_columns
\* appends to it the columns it applies to the relation, in batch order.
\* So the list is '*' followed by the columns appended since the relation's
\* last registration.
C19_ColumnListIsStarThenAppended ==
  /\ [](\A kind \in RelKinds : \A schema \in DOMAIN dbmetadata[kind] :
          \A rel \in DOMAIN dbmetadata[kind][schema] :
            /\ dbmetadata[kind][schema][rel] # <<>>
            /\ Head(dbmetadata[kind][schema][rel]) = Star)
  /\ [][\A kind \in RelKinds : \A schema \in DOMAIN dbmetadata'[kind] :
          \A rel \in DOMAIN dbmetadata'[kind][schema] :
            LET here == /\ call'.kind = kind
                        /\ call'.schema # None
                        /\ upper(call'.schema) = schema
            IN IF call'.op = "extend_relations" /\ here /\ ~call'.data.raises
                  /\ rel \in NamesOf(call'.data.items)
               THEN dbmetadata'[kind][schema][rel] = <<Star>>
               ELSE /\ schema \in DOMAIN dbmetadata[kind]
                    /\ rel \in DOMAIN dbmetadata[kind][schema]
                    /\ dbmetadata'[kind][schema][rel] =
                         dbmetadata[kind][schema][rel]
                         \o (IF call'.op = "extend_columns" /\ here
                             THEN ColumnsOf(AppliedPairs(dbmetadata, kind, schema, call'.data), rel)
                             ELSE <<>>)]_vars

\* C19 witness: the table emp of HR, which had been given the column a, has
\* just been registered again and its column list is the single '*'.
C19_Witness ==
  /\ call.op = "extend_relations"
  /\ call.kind = "tables"
  /\ n_a \in all_completions
  /\ \A kind \in AllKinds : DOMAIN dbmetadata[kind] = {s_HR}
  /\ dbmetadata["views"][s_HR] = EmptyDict
  /\ dbmetadata["tables"][s_HR][n_emp] = <<Star>>

\* C20 as claimed: extend_functions given a schema that is registered up to
\* letter case returns normally and registers every function of the batch
\* under the uppercased schema, where populate_schema_objects finds them.
C20_FunctionsSchemaAnyCase ==
  (/\ call.op = "extend_functions"
   /\ ~call.data.raises
   /\ upper(call.schema) \in DOMAIN dbmetadata["functions"]) =>
    /\ outcome = "ok"
    /\ NamesOf(call.data.items) \subseteq populate_schema_objects(call.schema, "functions")

====
